---- MODULE Spec2Model ----
(***************************************************************************)
(* Ring buffer of libu (srcs/toolbox/rb.c): a byte buffer of sz bytes      *)
(* whose backing file is mapped twice, back to back, so that the virtual   *)
(* addresses base+i and base+i+sz name the same byte.  The model keeps     *)
(* the struct u_rb_s fields, the sz bytes of the backing file and, for     *)
(* every call, a record of the call (its arguments, its return value and   *)
(* the offsets it found on entry).                                         *)
(***************************************************************************)
EXTENDS Integers, Sequences, FiniteSets

\* ------------------------------------------------------------------ bounds
\* width in bits of size_t; offsets and sizes are computed modulo 2^WordBits
WordBits == 4
\* value returned by sysconf(_SC_PAGE_SIZE)
PageSize == 2
\* largest hint_sz handed to u_rb_create
MaxHint == 2
\* bytes take the values 0..MaxByte
MaxByte == 1

SizeMod == 2 ^ WordBits
Byte == 0..MaxByte

VARIABLES
    sz,       \* rb->sz
    wr_off,   \* rb->wr_off
    rd_off,   \* rb->rd_off
    mem,      \* the sz bytes of the backing file, shared by both mappings
    fault,    \* a memcpy touched an address outside [base, base + 2*sz)
    op,       \* the last call: "create", "write", "read" or "clear"
    b_null,   \* the last call's argument b was NULL
    b,        \* the caller's block: the source of a write, the bytes a read delivered
    b_sz,     \* the last call's argument b_sz
    ret,      \* the last call's return value
    h_wr,     \* rb->wr_off on entry to the last call
    h_rd,     \* rb->rd_off on entry to the last call
    net,      \* bytes accepted by writes minus bytes delivered by reads
              \* since u_rb_create or the last u_rb_clear
    h_trip,   \* <<S>> when the call before the last one was a write of S that was
              \* not refused and found the buffer empty, <<>> otherwise
    fifo,     \* the bytes writes accepted and reads have not delivered yet, oldest
              \* first, since u_rb_create or the last u_rb_clear
    c_pc,     \* where u_rb_create stands, or "created", "failed", "released"
    inject,   \* the system call made to fail: "none" or the name of the step
    rb_mem,   \* the control structure: "none" (rb == NULL), "live" or "freed"
    base,     \* rb->base: "NULL", "MAP_FAILED" or "addr"
    maps,     \* what is mapped at base: a subset of {"reserve", "first", "second"}
    fd_var,   \* the local fd of u_rb_create is not -1
    fd_os,    \* the descriptor itself: "none", "open" or "closed"
    n_close,  \* the number of close() calls made on the descriptor
    linked,   \* the temporary file still has its name in /tmp
    p_pc,     \* producer: where its u_rb_write stands, or "idle"
    p_n,      \* producer: b_sz
    p_wr,     \* producer: the value it loaded from rb->wr_off in u_rb_ready
    p_rd,     \* producer: the value it loaded from rb->rd_off in u_rb_ready
    p_k,      \* producer: to_be_written
    p_t,      \* producer: the value loaded by rb->wr_off += cnt
    q_pc,     \* consumer: where its u_rb_read stands, or "idle"
    q_n,      \* consumer: b_sz
    q_wr,     \* consumer: the value it loaded from rb->wr_off in u_rb_ready
    q_rd,     \* consumer: the value it loaded from rb->rd_off in u_rb_ready
    q_k,      \* consumer: to_be_read
    q_t,      \* consumer: the value loaded by a += or -= of read_incr
    overlapped \* some step was taken while the other process was inside a call

vars == <<sz, wr_off, rd_off, mem, fault, op, b_null, b, b_sz, ret, h_wr, h_rd, net, h_trip,
          fifo, c_pc, inject, rb_mem, base, maps, fd_var, fd_os, n_close, linked,
          p_pc, p_n, p_wr, p_rd, p_k, p_t, q_pc, q_n, q_wr, q_rd, q_k, q_t, overlapped>>

\* the state of the ring and of the record of its calls
ringVars == <<sz, wr_off, rd_off, mem, fault, op, b_null, b, b_sz, ret, h_wr, h_rd, net,
              h_trip, fifo>>

\* the resources u_rb_create acquires and u_rb_free releases
lifeVars == <<c_pc, inject, rb_mem, base, maps, fd_var, fd_os, n_close, linked>>

\* the two processes of the unsynchronized use
prodVars == <<p_pc, p_n, p_wr, p_rd, p_k, p_t>>
consVars == <<q_pc, q_n, q_wr, q_rd, q_k, q_t>>
concVars == <<prodVars, consVars, overlapped>>

\* a local that holds no loaded value
NotLoaded == SizeMod

\* no call is under way
Quiet ==
    /\ p_pc = "idle" /\ p_n = 0 /\ p_wr = NotLoaded /\ p_rd = NotLoaded
    /\ p_k = 0 /\ p_t = NotLoaded
    /\ q_pc = "idle" /\ q_n = 0 /\ q_wr = NotLoaded /\ q_rd = NotLoaded
    /\ q_k = 0 /\ q_t = NotLoaded
    /\ overlapped = FALSE

\* struct u_rb_s, without base: addresses are offsets from rb->base
RB == [sz |-> sz, wr_off |-> wr_off, rd_off |-> rd_off]

\* ------------------------------------------------------- pure functions
U_MIN(x, y) == IF x < y THEN x ELSE y

\* the hint not decremented before the division: a whole page too many
\* when the hint is a multiple of the page size
round_sz_no_dec(hint) ==
    LET pg_sz == PageSize
    IN  IF hint = 0 THEN pg_sz
        ELSE (((hint \div pg_sz) + 1) * pg_sz) % SizeMod

round_sz(hint) ==
    LET pg_sz == PageSize
    IN  IF hint = 0 THEN pg_sz
        ELSE ((((hint - 1) \div pg_sz) + 1) * pg_sz) % SizeMod

\* the length of the mapped window taken for the capacity
u_rb_size_window(rb) == (rb.sz * 2) % SizeMod

u_rb_size(rb) == rb.sz

\* the read offset forgotten
u_rb_ready_wr(rb) == rb.wr_off

u_rb_ready(rb) == (rb.wr_off - rb.rd_off) % SizeMod

\* the buffered bytes forgotten: the whole capacity is always free
u_rb_avail_sz(rb) == rb.sz

\* the read offset forgotten: the space up to the end of the file
u_rb_avail_wr(rb) == (rb.sz - rb.wr_off) % SizeMod

u_rb_avail(rb) == (rb.sz - u_rb_ready(rb)) % SizeMod

\* the read offset used for writing
write_addr_rd(rb) == rb.rd_off

write_addr(rb) == rb.wr_off

\* the write offset wrapped at sz on every write
write_incr_wrap(rb, cnt) == [rb EXCEPT !.wr_off = ((@ + cnt) % SizeMod) % rb.sz]

\* the write offset advanced by one instead of by cnt
write_incr_one(rb, cnt) == [rb EXCEPT !.wr_off = (@ + 1) % SizeMod]

write_incr(rb, cnt) == [rb EXCEPT !.wr_off = (@ + cnt) % SizeMod]

\* the write offset used for reading
read_addr_wr(rb) == rb.wr_off

read_addr(rb) == rb.rd_off

\* sz taken off the read offset only
read_incr_rd_only(rb, cnt) ==
    LET r1 == [rb EXCEPT !.rd_off = (@ + cnt) % SizeMod]
    IN  IF r1.rd_off >= r1.sz
        THEN [r1 EXCEPT !.rd_off = (@ - r1.sz) % SizeMod]
        ELSE r1

\* the boundary test written > instead of >=
read_incr_gt(rb, cnt) ==
    LET r1 == [rb EXCEPT !.rd_off = (@ + cnt) % SizeMod]
    IN  IF r1.rd_off > r1.sz
        THEN [r1 EXCEPT !.rd_off = (@ - r1.sz) % SizeMod,
                        !.wr_off = (@ - r1.sz) % SizeMod]
        ELSE r1

\* the offsets never pulled back
read_incr_no_norm(rb, cnt) == [rb EXCEPT !.rd_off = (@ + cnt) % SizeMod]

read_incr(rb, cnt) ==
    LET r1 == [rb EXCEPT !.rd_off = (@ + cnt) % SizeMod]
    IN  IF r1.rd_off >= r1.sz
        THEN [r1 EXCEPT !.rd_off = (@ - r1.sz) % SizeMod,
                        !.wr_off = (@ - r1.sz) % SizeMod]
        ELSE r1

\* ------------------------------------------------------- the double mapping
\* the two MAP_SHARED mappings of the file at base and at base + sz:
\* the byte of the file that the address base + a names
FileOffset(s, a) == a % s

\* [base + a, base + a + cnt) lies inside the 2*sz bytes reserved at base
Mapped(s, a, cnt) == a + cnt <= 2 * s

Memory(s) == [0..(s - 1) -> Byte]

RECURSIVE StoreBytes(_, _, _, _, _)
\* memcpy(base + a, src, cnt), byte by byte from src[i]
StoreBytes(m, s, a, src, i) ==
    IF i > Len(src) THEN m
    ELSE StoreBytes([m EXCEPT ![FileOffset(s, a + i - 1)] = src[i]], s, a, src, i + 1)

\* memcpy(base + a, src, cnt): the file afterwards
memcpy_to_rb(m, s, a, src, cnt) == StoreBytes(m, s, a, SubSeq(src, 1, cnt), 1)

\* memcpy(dst, base + a, cnt): the cnt bytes delivered
memcpy_from_rb(m, s, a, cnt) == [i \in 1..cnt |-> m[FileOffset(s, a + i - 1)]]

\* ------------------------------------------------------------ history
\* the first k elements of s, and s without them
Take(s, k) == [i \in 1..(IF k < Len(s) THEN k ELSE Len(s)) |-> s[i]]
Drop(s, k) == [i \in 1..(IF k < Len(s) THEN Len(s) - k ELSE 0) |-> s[i + k]]

LastAcceptedOnEmpty ==
    IF op = "write" /\ ret >= 0 /\ h_wr = h_rd THEN <<b>> ELSE <<>>

Record(name, nul, blk, n, r) ==
    /\ op' = name
    /\ b_null' = nul
    /\ b' = blk
    /\ b_sz' = n
    /\ ret' = r
    /\ h_wr' = wr_off
    /\ h_rd' = rd_off
    /\ h_trip' = LastAcceptedOnEmpty

\* ------------------------------------------------------------ operations
\* only the write offset reset
u_rb_clear_wr_only ==
    /\ ~fault
    /\ wr_off' = 0
    /\ net' = 0
    /\ fifo' = <<>>
    /\ Record("clear", TRUE, <<>>, 0, 0)
    /\ UNCHANGED <<sz, rd_off, mem, fault>>

\* the state u_rb_create leaves on success: a file of sz zero bytes
u_rb_create(hint_sz) ==
    /\ sz = round_sz(hint_sz)
    /\ wr_off = 0
    /\ rd_off = 0
    /\ mem = [p \in 0..(sz - 1) |-> 0]
    /\ fault = FALSE
    /\ op = "create"
    /\ b_null = TRUE
    /\ b = <<>>
    /\ b_sz = hint_sz
    /\ ret = 0
    /\ h_wr = 0
    /\ h_rd = 0
    /\ net = 0
    /\ h_trip = <<>>
    /\ fifo = <<>>
    /\ c_pc = "created"
    /\ inject = "none"
    /\ rb_mem = "live"
    /\ base = "addr"
    /\ maps = {"reserve", "first", "second"}
    /\ fd_var = TRUE
    /\ fd_os = "closed"
    /\ n_close = 1
    /\ linked = FALSE
    /\ Quiet

u_rb_write(nul, blk, n) ==
    LET rb == RB
        to_be_written == U_MIN(u_rb_avail(rb), n)
        after == write_incr(rb, to_be_written)
    IN  /\ ~fault
        /\ IF nul \/ n > u_rb_size(rb)
           THEN /\ Record("write", nul, blk, n, -1)
                /\ UNCHANGED <<sz, wr_off, rd_off, mem, fault, net, fifo>>
           ELSE IF to_be_written = 0
           THEN /\ Record("write", nul, blk, n, 0)
                /\ UNCHANGED <<sz, wr_off, rd_off, mem, fault, net, fifo>>
           ELSE /\ IF Mapped(rb.sz, write_addr(rb), to_be_written)
                   THEN /\ mem' = memcpy_to_rb(mem, rb.sz, write_addr(rb), blk, to_be_written)
                        /\ fault' = FALSE
                   ELSE /\ mem' \in Memory(rb.sz)
                        /\ fault' = TRUE
                /\ wr_off' = after.wr_off
                /\ rd_off' = after.rd_off
                /\ sz' = after.sz
                /\ net' = net + to_be_written
                /\ fifo' = fifo \o Take(blk, to_be_written)
                /\ Record("write", nul, blk, n, to_be_written)

u_rb_read(nul, n) ==
    LET rb == RB
        to_be_read == U_MIN(u_rb_ready(rb), n)
        after == read_incr(rb, to_be_read)
    IN  /\ ~fault
        /\ IF nul \/ n > u_rb_size(rb)
           THEN /\ Record("read", nul, <<>>, n, -1)
                /\ UNCHANGED <<sz, wr_off, rd_off, mem, fault, net, fifo>>
           ELSE IF to_be_read = 0
           THEN /\ Record("read", nul, <<>>, n, 0)
                /\ UNCHANGED <<sz, wr_off, rd_off, mem, fault, net, fifo>>
           ELSE /\ IF Mapped(rb.sz, read_addr(rb), to_be_read)
                   THEN /\ Record("read", nul,
                                  memcpy_from_rb(mem, rb.sz, read_addr(rb), to_be_read),
                                  n, to_be_read)
                        /\ fault' = FALSE
                   ELSE /\ \E got \in [1..to_be_read -> Byte] :
                               Record("read", nul, got, n, to_be_read)
                        /\ fault' = TRUE
                /\ wr_off' = after.wr_off
                /\ rd_off' = after.rd_off
                /\ sz' = after.sz
                /\ net' = net - to_be_read
                /\ fifo' = Drop(fifo, to_be_read)
                /\ UNCHANGED mem

u_rb_clear ==
    /\ ~fault
    /\ wr_off' = 0
    /\ rd_off' = 0
    /\ net' = 0
    /\ fifo' = <<>>
    /\ Record("clear", TRUE, <<>>, 0, 0)
    /\ UNCHANGED <<sz, mem, fault>>

\* --------------------------------------------------------- specification
Init == \E hint_sz \in 0..MaxHint : u_rb_create(hint_sz)

Write ==
    /\ \E n \in 0..(sz + 1) :
            \/ \E blk \in [1..n -> Byte] : u_rb_write(FALSE, blk, n)
            \/ u_rb_write(TRUE, <<>>, n)
    /\ UNCHANGED <<lifeVars, concVars>>

Read ==
    /\ \E n \in 0..(sz + 1), nul \in BOOLEAN : u_rb_read(nul, n)
    /\ UNCHANGED <<lifeVars, concVars>>

Clear ==
    /\ u_rb_clear
    /\ UNCHANGED <<lifeVars, concVars>>

Next == Write \/ Read \/ Clear

Spec == Init /\ [][Next]_vars

\* ------------------------------------------------- creation and release
\* u_rb_create and u_rb_free one system call at a time.  A call fails when it
\* is the one named by inject, and also where the system must refuse it:
\* ftruncate of a length off_t cannot hold, mmap of no bytes, munmap of
\* MAP_FAILED.
Steps == {"alloc", "mkstemp", "remove", "ftruncate", "reserve", "map1", "map2", "close"}

\* the largest file length: off_t is signed and as wide as size_t
OffMax == (SizeMod \div 2) - 1

\* dbg_err_sif: on failure go to err, else go on with the next statement
Goto(failed, next) == c_pc' = IF failed THEN "err" ELSE next

\* rb.c:53
create_alloc ==
    /\ c_pc = "alloc"
    /\ rb_mem' = IF inject = "alloc" THEN "none" ELSE "live"
    /\ Goto(inject = "alloc", "mkstemp")
    /\ UNCHANGED <<ringVars, inject, base, maps, fd_var, fd_os, n_close, linked>>

\* rb.c:54
create_mkstemp ==
    /\ c_pc = "mkstemp"
    /\ IF inject = "mkstemp"
       THEN UNCHANGED <<fd_var, fd_os, linked>>
       ELSE fd_var' = TRUE /\ fd_os' = "open" /\ linked' = TRUE
    /\ Goto(inject = "mkstemp", "remove")
    /\ UNCHANGED <<ringVars, inject, rb_mem, base, maps, n_close>>

\* rb.c:55
create_remove ==
    /\ c_pc = "remove"
    /\ linked' = (inject = "remove")
    /\ Goto(inject = "remove", "round")
    /\ UNCHANGED <<ringVars, inject, rb_mem, base, maps, fd_var, fd_os, n_close>>

\* rb.c:59-61
create_round ==
    /\ c_pc = "round"
    /\ sz' = round_sz(b_sz)
    /\ wr_off' = 0
    /\ rd_off' = 0
    /\ c_pc' = "ftruncate"
    /\ UNCHANGED <<mem, fault, op, b_null, b, b_sz, ret, h_wr, h_rd, net, h_trip, fifo>>
    /\ UNCHANGED <<inject, rb_mem, base, maps, fd_var, fd_os, n_close, linked>>

\* rb.c:63
create_ftruncate ==
    LET failed == inject = "ftruncate" \/ sz > OffMax
    IN  /\ c_pc = "ftruncate"
        /\ mem' = IF failed THEN mem ELSE [p \in 0..(sz - 1) |-> 0]
        /\ Goto(failed, "reserve")
        /\ UNCHANGED <<sz, wr_off, rd_off, fault, op, b_null, b, b_sz, ret, h_wr, h_rd, net,
                       h_trip, fifo>>
        /\ UNCHANGED <<inject, rb_mem, base, maps, fd_var, fd_os, n_close, linked>>

\* rb.c:66-68
create_reserve ==
    LET len == (sz * 2) % SizeMod
        failed == inject = "reserve" \/ len = 0
    IN  /\ c_pc = "reserve"
        /\ base' = IF failed THEN "MAP_FAILED" ELSE "addr"
        /\ maps' = IF failed THEN maps ELSE {"reserve"}
        /\ Goto(failed, "map1")
        /\ UNCHANGED <<ringVars, inject, rb_mem, fd_var, fd_os, n_close, linked>>

\* rb.c:71-72
create_map1 ==
    /\ c_pc = "map1"
    /\ maps' = IF inject = "map1" THEN maps ELSE maps \cup {"first"}
    /\ Goto(inject = "map1", "map2")
    /\ UNCHANGED <<ringVars, inject, rb_mem, base, fd_var, fd_os, n_close, linked>>

\* rb.c:75-76
create_map2 ==
    /\ c_pc = "map2"
    /\ maps' = IF inject = "map2" THEN maps ELSE maps \cup {"second"}
    /\ Goto(inject = "map2", "close")
    /\ UNCHANGED <<ringVars, inject, rb_mem, base, fd_var, fd_os, n_close, linked>>

\* rb.c:79-83; whether a close() that fails has released the descriptor is
\* left open by POSIX
create_close ==
    /\ c_pc = "close"
    /\ n_close' = n_close + 1
    /\ IF inject = "close"
       THEN fd_os' \in {"open", "closed"}
       ELSE fd_os' = "closed"
    /\ Goto(inject = "close", "created")
    /\ UNCHANGED <<ringVars, inject, rb_mem, base, maps, fd_var, linked>>

\* munmap(rb->base, rb->sz << 1) returns -1
munmap_fails(unmap_fails) == base = "MAP_FAILED" \/ unmap_fails

\* rb.c:99-107
u_rb_free(unmap_fails) ==
    IF rb_mem # "live"
    THEN UNCHANGED <<rb_mem, maps>>
    ELSE IF base # "NULL" /\ munmap_fails(unmap_fails)
    THEN UNCHANGED <<rb_mem, maps>>
    ELSE /\ maps' = IF base # "NULL" THEN {} ELSE maps
         /\ rb_mem' = "freed"

\* U_CLOSE(fd): close the descriptor unless fd is -1
U_CLOSE ==
    IF fd_var
    THEN fd_os' = "closed" /\ n_close' = n_close + 1
    ELSE UNCHANGED <<fd_os, n_close>>

\* rb.c:84-87
create_err ==
    /\ c_pc = "err"
    /\ u_rb_free(FALSE)
    /\ U_CLOSE
    /\ c_pc' = "failed"
    /\ ret' = -1
    /\ UNCHANGED <<sz, wr_off, rd_off, mem, fault, op, b_null, b, b_sz, h_wr, h_rd, net,
                   h_trip, fifo>>
    /\ UNCHANGED <<inject, base, fd_var, linked>>

\* u_rb_free called by the owner of a created buffer; the munmap may fail
Release ==
    /\ c_pc = "created"
    /\ \E unmap_fails \in BOOLEAN :
        /\ u_rb_free(unmap_fails)
        /\ inject' = IF unmap_fails THEN "munmap" ELSE inject
    /\ c_pc' = "released"
    /\ UNCHANGED <<ringVars, base, fd_var, fd_os, n_close, linked>>

\* the call u_rb_create(hint_sz, &rb) about to be made
InitLife ==
    /\ b_sz \in 0..(SizeMod - 1)
    /\ inject \in Steps \cup {"none"}
    /\ c_pc = "alloc"
    /\ rb_mem = "none"
    /\ base = "NULL"
    /\ maps = {}
    /\ fd_var = FALSE
    /\ fd_os = "none"
    /\ n_close = 0
    /\ linked = FALSE
    /\ sz = 0 /\ wr_off = 0 /\ rd_off = 0
    /\ mem = <<>>
    /\ fault = FALSE
    /\ op = "create" /\ b_null = TRUE /\ b = <<>> /\ ret = 0
    /\ h_wr = 0 /\ h_rd = 0 /\ net = 0 /\ h_trip = <<>> /\ fifo = <<>>
    /\ Quiet

NextLife ==
    /\ \/ create_alloc \/ create_mkstemp \/ create_remove \/ create_round
       \/ create_ftruncate \/ create_reserve \/ create_map1 \/ create_map2
       \/ create_close \/ create_err \/ Release
    /\ UNCHANGED concVars

SpecLife == InitLife /\ [][NextLife]_vars

\* the state in which u_rb_create returns 0 is an initial state of Spec
CreatedIsInit == c_pc = "created" => u_rb_create(b_sz)

\* ------------------------------------------------- unsynchronized use
\* One producer calling u_rb_write and one consumer calling u_rb_read on the
\* same buffer, with no lock: every load and every store of rb->wr_off and
\* rb->rd_off is a step of its own, and the steps of the two processes
\* interleave freely.  The two loads of u_rb_ready are made in either order.
\* The two subtractions of read_incr act on different plain objects with no
\* ordering between them that another process could rely on, so they become
\* visible in the order of the source or in the other order.
\* A memcpy is one step; one that leaves the mapping ends the run.

\* the struct as a process sees it through the values it loaded
Seen(w, r) == [sz |-> sz, wr_off |-> w, rd_off |-> r]

\* a step of one process while the other is inside a call
Overlap(other_pc) == overlapped' = (overlapped \/ other_pc # "idle")

ProdReset ==
    /\ p_pc' = "idle" /\ p_n' = 0 /\ p_wr' = NotLoaded /\ p_rd' = NotLoaded
    /\ p_k' = 0 /\ p_t' = NotLoaded

ConsReset ==
    /\ q_pc' = "idle" /\ q_n' = 0 /\ q_wr' = NotLoaded /\ q_rd' = NotLoaded
    /\ q_k' = 0 /\ q_t' = NotLoaded

\* rb.c:143-145, a call that is not refused
p_call ==
    /\ ~fault /\ p_pc = "idle"
    /\ \E n \in 0..sz :
        /\ n <= u_rb_size(RB)
        /\ p_n' = n
    /\ p_pc' = "avail"
    /\ Overlap(q_pc)
    /\ UNCHANGED <<ringVars, lifeVars, consVars, p_wr, p_rd, p_k, p_t>>

\* rb.c:147, once both offsets are loaded
ProdChoose(w, r) ==
    LET to_be_written == U_MIN(u_rb_avail(Seen(w, r)), p_n)
    IN  IF to_be_written = 0
        THEN ProdReset
        ELSE /\ p_pc' = "copy"
             /\ p_k' = to_be_written
             /\ p_wr' = NotLoaded /\ p_rd' = NotLoaded
             /\ UNCHANGED <<p_n, p_t>>

\* rb.c:222, the load of rb->wr_off
p_load_wr ==
    /\ ~fault /\ p_pc = "avail" /\ p_wr = NotLoaded
    /\ IF p_rd = NotLoaded
       THEN p_wr' = wr_off /\ UNCHANGED <<p_pc, p_n, p_rd, p_k, p_t>>
       ELSE ProdChoose(wr_off, p_rd)
    /\ Overlap(q_pc)
    /\ UNCHANGED <<ringVars, lifeVars, consVars>>

\* rb.c:222, the load of rb->rd_off
p_load_rd ==
    /\ ~fault /\ p_pc = "avail" /\ p_rd = NotLoaded
    /\ IF p_wr = NotLoaded
       THEN p_rd' = rd_off /\ UNCHANGED <<p_pc, p_n, p_wr, p_k, p_t>>
       ELSE ProdChoose(p_wr, rd_off)
    /\ Overlap(q_pc)
    /\ UNCHANGED <<ringVars, lifeVars, consVars>>

\* rb.c:149
p_copy ==
    /\ ~fault /\ p_pc = "copy"
    /\ IF Mapped(sz, write_addr(RB), p_k)
       THEN /\ \E blk \in [1..p_k -> Byte] :
                mem' = memcpy_to_rb(mem, sz, write_addr(RB), blk, p_k)
            /\ fault' = FALSE
       ELSE /\ mem' \in Memory(sz)
            /\ fault' = TRUE
    /\ p_pc' = "incr_ld"
    /\ Overlap(q_pc)
    /\ UNCHANGED <<sz, wr_off, rd_off, op, b_null, b, b_sz, ret, h_wr, h_rd, net, h_trip, fifo>>
    /\ UNCHANGED <<lifeVars, consVars, p_n, p_wr, p_rd, p_k, p_t>>

\* rb.c:262, the load of rb->wr_off += cnt
p_incr_ld ==
    /\ ~fault /\ p_pc = "incr_ld"
    /\ p_t' = wr_off
    /\ p_pc' = "incr_st"
    /\ Overlap(q_pc)
    /\ UNCHANGED <<ringVars, lifeVars, consVars, p_n, p_wr, p_rd, p_k>>

\* rb.c:262, the store of rb->wr_off += cnt, and the return
p_incr_st ==
    /\ ~fault /\ p_pc = "incr_st"
    /\ wr_off' = write_incr(Seen(p_t, rd_off), p_k).wr_off
    /\ ProdReset
    /\ Overlap(q_pc)
    /\ UNCHANGED <<sz, rd_off, mem, fault, op, b_null, b, b_sz, ret, h_wr, h_rd, net, h_trip,
                   fifo>>
    /\ UNCHANGED <<lifeVars, consVars>>

\* rb.c:178-180, a call that is not refused
q_call ==
    /\ ~fault /\ q_pc = "idle"
    /\ \E n \in 0..sz :
        /\ n <= u_rb_size(RB)
        /\ q_n' = n
    /\ q_pc' = "ready"
    /\ Overlap(p_pc)
    /\ UNCHANGED <<ringVars, lifeVars, prodVars, q_wr, q_rd, q_k, q_t>>

\* rb.c:183, once both offsets are loaded
ConsChoose(w, r) ==
    LET to_be_read == U_MIN(u_rb_ready(Seen(w, r)), q_n)
    IN  IF to_be_read = 0
        THEN ConsReset
        ELSE /\ q_pc' = "copy"
             /\ q_k' = to_be_read
             /\ q_wr' = NotLoaded /\ q_rd' = NotLoaded
             /\ UNCHANGED <<q_n, q_t>>

\* rb.c:222, the load of rb->wr_off
q_load_wr ==
    /\ ~fault /\ q_pc = "ready" /\ q_wr = NotLoaded
    /\ IF q_rd = NotLoaded
       THEN q_wr' = wr_off /\ UNCHANGED <<q_pc, q_n, q_rd, q_k, q_t>>
       ELSE ConsChoose(wr_off, q_rd)
    /\ Overlap(p_pc)
    /\ UNCHANGED <<ringVars, lifeVars, prodVars>>

\* rb.c:222, the load of rb->rd_off
q_load_rd ==
    /\ ~fault /\ q_pc = "ready" /\ q_rd = NotLoaded
    /\ IF q_wr = NotLoaded
       THEN q_rd' = rd_off /\ UNCHANGED <<q_pc, q_n, q_wr, q_k, q_t>>
       ELSE ConsChoose(q_wr, rd_off)
    /\ Overlap(p_pc)
    /\ UNCHANGED <<ringVars, lifeVars, prodVars>>

\* rb.c:185
q_copy ==
    /\ ~fault /\ q_pc = "copy"
    /\ fault' = ~Mapped(sz, read_addr(RB), q_k)
    /\ q_pc' = "incr_ld"
    /\ Overlap(p_pc)
    /\ UNCHANGED <<sz, wr_off, rd_off, mem, op, b_null, b, b_sz, ret, h_wr, h_rd, net, h_trip,
                   fifo>>
    /\ UNCHANGED <<lifeVars, prodVars, q_n, q_wr, q_rd, q_k, q_t>>

\* a load of an offset into the consumer's temporary
ConsLoad(at, value, next) ==
    /\ ~fault /\ q_pc = at
    /\ q_t' = value
    /\ q_pc' = next
    /\ Overlap(p_pc)
    /\ UNCHANGED <<ringVars, lifeVars, prodVars, q_n, q_wr, q_rd, q_k>>

\* rb.c:277, the load of rb->rd_off += cnt
q_incr_ld == ConsLoad("incr_ld", rd_off, "incr_st")

\* rb.c:277, the store of rb->rd_off += cnt
q_incr_st ==
    /\ ~fault /\ q_pc = "incr_st"
    /\ rd_off' = (q_t + q_k) % SizeMod
    /\ q_pc' = "test"
    /\ q_t' = NotLoaded
    /\ Overlap(p_pc)
    /\ UNCHANGED <<sz, wr_off, mem, fault, op, b_null, b, b_sz, ret, h_wr, h_rd, net, h_trip,
                   fifo>>
    /\ UNCHANGED <<lifeVars, prodVars, q_n, q_wr, q_rd, q_k>>

\* rb.c:282, and the return when there is nothing to pull back
q_test ==
    /\ ~fault /\ q_pc = "test"
    /\ IF rd_off >= sz
       THEN /\ q_pc' \in {"norm_rd_ld", "swap_wr_ld"}
            /\ UNCHANGED <<q_n, q_wr, q_rd, q_k, q_t>>
       ELSE ConsReset
    /\ Overlap(p_pc)
    /\ UNCHANGED <<ringVars, lifeVars, prodVars>>

\* rb.c:284, the load of rb->rd_off -= rb->sz
q_norm_rd_ld == ConsLoad("norm_rd_ld", rd_off, "norm_rd_st")

\* rb.c:284, the store of rb->rd_off -= rb->sz
q_norm_rd_st ==
    /\ ~fault /\ q_pc = "norm_rd_st"
    /\ rd_off' = (q_t - sz) % SizeMod
    /\ q_pc' = "norm_wr_ld"
    /\ q_t' = NotLoaded
    /\ Overlap(p_pc)
    /\ UNCHANGED <<sz, wr_off, mem, fault, op, b_null, b, b_sz, ret, h_wr, h_rd, net, h_trip,
                   fifo>>
    /\ UNCHANGED <<lifeVars, prodVars, q_n, q_wr, q_rd, q_k>>

\* rb.c:285, the load of rb->wr_off -= rb->sz
q_norm_wr_ld == ConsLoad("norm_wr_ld", wr_off, "norm_wr_st")

\* rb.c:285, the store of rb->wr_off -= rb->sz, and the return
q_norm_wr_st ==
    /\ ~fault /\ q_pc = "norm_wr_st"
    /\ wr_off' = (q_t - sz) % SizeMod
    /\ ConsReset
    /\ Overlap(p_pc)
    /\ UNCHANGED <<sz, rd_off, mem, fault, op, b_null, b, b_sz, ret, h_wr, h_rd, net, h_trip,
                   fifo>>
    /\ UNCHANGED <<lifeVars, prodVars>>

\* rb.c:285 made visible before rb.c:284: the load of rb->wr_off -= rb->sz
q_swap_wr_ld == ConsLoad("swap_wr_ld", wr_off, "swap_wr_st")

\* rb.c:285 made visible before rb.c:284: the store of rb->wr_off -= rb->sz
q_swap_wr_st ==
    /\ ~fault /\ q_pc = "swap_wr_st"
    /\ wr_off' = (q_t - sz) % SizeMod
    /\ q_pc' = "swap_rd_ld"
    /\ q_t' = NotLoaded
    /\ Overlap(p_pc)
    /\ UNCHANGED <<sz, rd_off, mem, fault, op, b_null, b, b_sz, ret, h_wr, h_rd, net, h_trip,
                   fifo>>
    /\ UNCHANGED <<lifeVars, prodVars, q_n, q_wr, q_rd, q_k>>

\* rb.c:284 made visible after rb.c:285: the load of rb->rd_off -= rb->sz
q_swap_rd_ld == ConsLoad("swap_rd_ld", rd_off, "swap_rd_st")

\* rb.c:284 made visible after rb.c:285: the store of rb->rd_off -= rb->sz,
\* and the return
q_swap_rd_st ==
    /\ ~fault /\ q_pc = "swap_rd_st"
    /\ rd_off' = (q_t - sz) % SizeMod
    /\ ConsReset
    /\ Overlap(p_pc)
    /\ UNCHANGED <<sz, wr_off, mem, fault, op, b_null, b, b_sz, ret, h_wr, h_rd, net, h_trip,
                   fifo>>
    /\ UNCHANGED <<lifeVars, prodVars>>

InitConc == Init

Producer == p_call \/ p_load_wr \/ p_load_rd \/ p_copy \/ p_incr_ld \/ p_incr_st

Consumer ==
    \/ q_call \/ q_load_wr \/ q_load_rd \/ q_copy \/ q_incr_ld \/ q_incr_st \/ q_test
    \/ q_norm_rd_ld \/ q_norm_rd_st \/ q_norm_wr_ld \/ q_norm_wr_st
    \/ q_swap_wr_ld \/ q_swap_wr_st \/ q_swap_rd_ld \/ q_swap_rd_st

NextConc == Producer \/ Consumer

SpecConc == InitConc /\ [][NextConc]_vars

\* ------------------------------------------------------------ properties
\* what the steps below are about: the call a step makes is the one the
\* next state records
WriteCall == op' = "write" /\ ~b_null'
ReadCall == op' = "read" /\ ~b_null'
Min(x, y) == IF x <= y THEN x ELSE y

\* C1: in every reachable state 0 <= rd_off <= wr_off, wr_off - rd_off <= sz
\* and wr_off < 2*sz.
C1_Offsets ==
    /\ 0 <= rd_off
    /\ rd_off <= wr_off
    /\ wr_off - rd_off <= sz
    /\ wr_off < 2 * sz

\* a read that found wr_off at 2*sz - 1 and pulled both offsets back
C1_Witness == op = "read" /\ ret > 0 /\ h_wr = 2 * sz - 1 /\ wr_off = h_wr - sz

\* C2: a write of S into an empty buffer, followed by a read of Len(S) bytes,
\* makes the read return Len(S) and deliver exactly S.
C2_RoundTrip ==
    (op = "read" /\ ~b_null /\ h_trip # <<>> /\ b_sz = Len(h_trip[1]))
        => (ret = b_sz /\ b = h_trip[1])

\* the round trip of a sequence of two different bytes lying across the end
\* of the file
C2_Witness ==
    /\ op = "read" /\ ~b_null /\ h_trip # <<>>
    /\ b_sz = Len(h_trip[1]) /\ ret = b_sz /\ ret >= 2
    /\ h_rd < sz /\ h_rd + ret > sz
    /\ b[1] # b[2]

\* C3: Ready equals the bytes writes returned minus the bytes reads returned,
\* and Ready + Avail = Size, in every reachable state.
C3_Conservation ==
    /\ u_rb_ready(RB) = net
    /\ u_rb_ready(RB) + u_rb_avail(RB) = u_rb_size(RB)

\* a read that pulled the offsets back and left bytes in the buffer
C3_Witness == op = "read" /\ ret > 0 /\ h_rd + ret >= sz /\ net > 0 /\ net < sz

\* C4: a write leaves every unread byte as it was and stores no more than
\* Avail bytes.
C4_NoOverwrite ==
    [][(WriteCall /\ b_sz' <= sz) =>
        /\ \A i \in 0..(wr_off - rd_off - 1) :
               mem'[(rd_off + i) % sz] = mem[(rd_off + i) % sz]
        /\ ret' <= sz - (wr_off - rd_off)]_vars

\* a write into a buffer holding unread bytes, asking for more than is free
C4_Witness ==
    /\ op = "write" /\ ~b_null /\ b_sz <= sz
    /\ h_wr > h_rd /\ b_sz > sz - (h_wr - h_rd) /\ ret > 0

\* C5: a write of n <= Size bytes returns k = min(Avail, n), stores the first
\* k bytes at the file offsets (wr_off + i) mod sz, advances wr_off by k and
\* leaves rd_off alone.
C5_Write ==
    [][(WriteCall /\ b_sz' <= sz) =>
        LET k == Min(sz - (wr_off - rd_off), b_sz')
        IN  /\ ret' = k
            /\ \A i \in 0..(k - 1) : mem'[(wr_off + i) % sz] = b'[i + 1]
            /\ wr_off' = wr_off + k
            /\ rd_off' = rd_off]_vars

\* a short write stored through the second mapping, where the file offset
\* is wr_off - sz
C5_Witness ==
    /\ op = "write" /\ ~b_null
    /\ 0 < ret /\ ret < b_sz /\ b_sz <= sz
    /\ h_wr >= sz /\ wr_off = h_wr + ret

\* C6: on a full buffer a write of 1..Size bytes returns 0 and changes neither
\* the offsets nor the contents.
C6_Backpressure ==
    [][(WriteCall /\ wr_off - rd_off = sz /\ b_sz' >= 1 /\ b_sz' <= sz) =>
        /\ ret' = 0
        /\ UNCHANGED <<wr_off, rd_off, mem>>]_vars

\* a write refused by a full buffer
C6_Witness ==
    /\ op = "write" /\ ~b_null /\ b_sz >= 1 /\ b_sz <= sz
    /\ h_wr - h_rd = sz /\ ret = 0

\* C7: a read of n <= Size bytes with k = min(Ready, n) > 0 returns k; when
\* rd_off + k >= sz both offsets lose sz (and wr_off was at least sz),
\* otherwise rd_off gains k and wr_off stays; Ready falls by exactly k.
C7_ReadNormalization ==
    [][LET k == Min(wr_off - rd_off, b_sz')
       IN  (ReadCall /\ b_sz' <= sz /\ k > 0) =>
            /\ ret' = k
            /\ IF rd_off + k >= sz
               THEN /\ wr_off >= sz
                    /\ rd_off' = rd_off + k - sz
                    /\ wr_off' = wr_off - sz
               ELSE /\ rd_off' = rd_off + k
                    /\ wr_off' = wr_off
            /\ wr_off' - rd_off' = (wr_off - rd_off) - k]_vars

\* a read that pulled the offsets back and left unread bytes behind
C7_Witness ==
    /\ op = "read" /\ ~b_null /\ ret > 0
    /\ h_rd + ret >= sz /\ rd_off = h_rd + ret - sz /\ wr_off = h_wr - sz
    /\ wr_off > rd_off

\* C8: whatever is asked for, the bytes a write or a read would copy lie
\* inside the 2*sz bytes of the mapping.
C8_Window ==
    /\ ~fault
    /\ \A n \in 0..sz :
        /\ wr_off + Min(u_rb_avail(RB), n) <= 2 * sz
        /\ rd_off + Min(u_rb_ready(RB), n) <= 2 * sz

\* a write that began in the first half and ended at the last address a
\* write can end at
C8_Witness ==
    /\ op = "write" /\ ret > 0
    /\ h_wr < sz /\ h_wr + ret = 2 * sz - 1

\* C9: a write or read asking for more than Size bytes returns -1 and changes
\* neither the offsets nor the contents; asking for exactly Size is not
\* refused.
C9_Oversized ==
    [][/\ (op' \in {"write", "read"} /\ b_sz' > sz) =>
            /\ ret' = -1
            /\ UNCHANGED <<wr_off, rd_off, mem>>
       /\ ((WriteCall \/ ReadCall) /\ b_sz' = sz) => ret' # -1]_vars

\* an oversized write refused by a full buffer
C9_Witness ==
    /\ op = "write" /\ ~b_null /\ b_sz = sz + 1 /\ ret = -1
    /\ wr_off - rd_off = sz

\* C10: on an empty buffer a read of 1..Size bytes returns 0 and leaves both
\* offsets as they were.
C10_Starvation ==
    [][(ReadCall /\ wr_off = rd_off /\ b_sz' >= 1 /\ b_sz' <= sz) =>
        /\ ret' = 0
        /\ UNCHANGED <<wr_off, rd_off>>]_vars

\* a read refused by a buffer that earlier reads had drained
C10_Witness ==
    /\ op = "read" /\ ~b_null /\ b_sz >= 1 /\ b_sz <= sz
    /\ h_wr = h_rd /\ h_rd > 0 /\ ret = 0

\* the Ready bytes at rd_off, as a read of all of them would deliver them
Unread == [i \in 1..(wr_off - rd_off) |-> mem[(rd_off + i - 1) % sz]]

\* C14: once the buffer is drained, at whatever offsets the reads left, a
\* write of exactly Size bytes returns Size.
C14_ReusableAfterDrain ==
    (op = "write" /\ ~b_null /\ b_sz = sz /\ h_wr = h_rd) => ret = sz

\* a full-size write accepted whole after reads drained the buffer at
\* offsets other than 0
C14_Witness ==
    /\ op = "write" /\ ~b_null /\ b_sz = sz /\ ret = sz
    /\ h_wr = h_rd /\ h_rd > 0 /\ wr_off = h_wr + sz

\* C15: u_rb_clear returns 0 with wr_off = rd_off = 0, so Ready = 0 and
\* Avail = Size, and leaves sz and every byte of the file as they were.
C15_Clear ==
    [][op' = "clear" =>
        /\ ret' = 0
        /\ wr_off' = 0 /\ rd_off' = 0
        /\ u_rb_ready(RB)' = 0
        /\ u_rb_avail(RB)' = sz
        /\ sz' = sz
        /\ mem' = mem]_vars

\* a clear of a buffer that held unread bytes, some of them not zero, with
\* the write offset in the second half
C15_Witness ==
    /\ op = "clear" /\ h_wr > h_rd /\ h_wr >= sz /\ wr_off = 0 /\ rd_off = 0
    /\ \E p \in 0..(sz - 1) : mem[p] # 0

\* C17: the buffer is a FIFO queue of capacity sz: the unread bytes are
\* always the accepted bytes not yet delivered, in order, and every read
\* delivers the oldest of them.
C17_Fifo ==
    [][/\ Len(fifo') <= sz
       /\ Unread' = fifo'
       /\ (ReadCall /\ ret' >= 0) =>
            /\ ret' <= Len(fifo)
            /\ b' = Take(fifo, ret')
            /\ fifo' = Drop(fifo, ret')
       /\ (WriteCall /\ ret' >= 0) =>
            /\ ret' <= b_sz'
            /\ fifo' = fifo \o Take(b', ret')]_vars

\* a write into a buffer that held unread bytes, after which the buffer is
\* full of bytes that are not all the same, at offsets other than 0
C17_Witness ==
    /\ op = "write" /\ ~b_null /\ ret > 0
    /\ h_wr > h_rd /\ h_rd > 0 /\ Len(fifo) = sz
    /\ fifo[1] # fifo[sz]

\* C18: after every call rd_off < sz.
C18_ReadOffsetFirstHalf == rd_off < sz

\* a read that brought rd_off to sz exactly and pulled it back to 0
C18_Witness == op = "read" /\ ret > 0 /\ h_rd > 0 /\ h_rd + ret = sz /\ rd_off = 0

\* C19: wr_off reaches 2*sz - 1 and never 2*sz.
C19_WriteOffsetBound == wr_off # 2 * sz

\* the write of sz bytes made with both offsets at sz - 1
C19_Witness ==
    /\ op = "write" /\ ret = sz /\ h_wr = sz - 1 /\ h_rd = sz - 1
    /\ wr_off = 2 * sz - 1

\* u_rb_create has set rb->sz (rb.c:59) and not failed since
SizeSet == c_pc \in {"ftruncate", "reserve", "map1", "map2", "close", "created"}

\* sz is the smallest positive multiple of the page size that is >= hint
SmallestMultiple(s, hint) ==
    /\ s > 0
    /\ s % PageSize = 0
    /\ s >= hint
    /\ (s - PageSize < hint \/ s = PageSize)
    /\ (hint = 0 => s = PageSize)

\* the largest multiple of the page size that size_t holds
MaxMultiple == ((SizeMod - 1) \div PageSize) * PageSize

\* C11: when u_rb_create returns -1 after a failure made at one of its steps,
\* nothing is left mapped, the descriptor (if it was opened) is closed, by
\* exactly one close(), and the control structure is not left allocated.
C11_Unwound ==
    (c_pc = "failed" /\ inject # "none") =>
        /\ maps = {}
        /\ (fd_os # "none" => (fd_os = "closed" /\ n_close = 1))
        /\ rb_mem # "live"

\* C12: when u_rb_free is called on a buffer and munmap fails, the control
\* structure is freed all the same.
C12_ReleaseFrees ==
    (c_pc = "released" /\ inject = "munmap") => rb_mem = "freed"

MidNormalization == q_pc \in {"norm_wr_ld", "norm_wr_st", "swap_rd_ld", "swap_rd_st"}

WindowOutside == p_pc = "copy" /\ ~Mapped(sz, write_addr(RB), p_k)

\* C20: with an unsynchronized producer and consumer a state with
\* wr_off - rd_off > sz is reachable; in every such state sz - Ready has
\* underflowed (u_rb_avail is SizeMod + sz - Ready, more than sz), and the
\* producer can select a copy window with wr_off + k > 2 * sz (C20_Witness).
\* Serialized calls show wr_off - rd_off > sz only between the two
\* subtractions of read_incr, and never select such a window.
C20_Underflow ==
    /\ u_rb_ready(RB) > sz => u_rb_avail(RB) = SizeMod + sz - u_rb_ready(RB)
    /\ (~fault /\ u_rb_ready(RB) > sz) => (overlapped \/ MidNormalization)
    /\ WindowOutside => (overlapped /\ write_addr(RB) + p_k > 2 * sz)

\* wr_off - rd_off > sz, rd_off <= wr_off, and the producer is about to copy
\* k bytes to a window that ends beyond 2 * sz
C20_Witness ==
    /\ ~fault /\ WindowOutside
    /\ rd_off <= wr_off /\ wr_off - rd_off > sz
    /\ wr_off + p_k > 2 * sz

====
